---- MODULE Spec2Model ----
(***************************************************************************)
(* A model of PyShell (src/main.py): the REPL driver Shell.run /            *)
(* Shell.processinput, the five builtins, PathResolver.findinpath, the     *)
(* external-command launcher and the readline completion callback          *)
(* Completer.complete.                                                     *)
(*                                                                         *)
(* Python strings are sequences of one-character strings, so that split,   *)
(* startswith, int() and os.path.join are computed and not assumed.        *)
(* A printed line is a record [fmt, arg]: the literal text of the          *)
(* print call and the string interpolated into it.                         *)
(***************************************************************************)
EXTENDS Integers, Sequences, FiniteSets, TLC

(* ------------------------------------------------------------------ *)
(* Bounds of the model                                                  *)
(* ------------------------------------------------------------------ *)

\* largest `state` index the line editor passes to Completer.complete
MaxState == 1

(* ------------------------------------------------------------------ *)
(* Python string operations                                             *)
(* ------------------------------------------------------------------ *)

None == <<"None">>

\* the one element of a singleton: The({ e(x) : x \in {v} }) is e(v), with v
\* computed once
The(S) == CHOOSE x \in S : TRUE

RECURSIVE SplitScan(_, _, _, _)
\* the pieces of s from position i on, `cur` being the piece under way
SplitScan(s, sep, cur, i) ==
  IF i > Len(s) THEN <<cur>>
  ELSE IF s[i] = sep THEN <<cur>> \o SplitScan(s, sep, <<>>, i + 1)
  ELSE SplitScan(s, sep, Append(cur, s[i]), i + 1)

\* str.split(sep): the pieces between separators, empty pieces kept
SplitOn(s, sep) == SplitScan(s, sep, <<>>, 1)

\* str.split() with no argument: runs of whitespace separate, no empty pieces
SplitWords(s) == SelectSeq(SplitOn(s, " "), LAMBDA w : w # <<>>)

\* str.startswith
StartsWith(s, prefix) ==
  Len(prefix) <= Len(s) /\ SubSeq(s, 1, Len(prefix)) = prefix

RECURSIVE JoinWith(_, _)
\* sep.join(list)
JoinWith(sep, list) ==
  IF list = <<>> THEN <<>>
  ELSE IF Len(list) = 1 THEN list[1]
  ELSE list[1] \o sep \o JoinWith(sep, Tail(list))

Digits == {"0", "1", "2", "3", "4", "5", "6", "7", "8", "9"}

DigitVal(c) ==
  CASE c = "0" -> 0 [] c = "1" -> 1 [] c = "2" -> 2 [] c = "3" -> 3
    [] c = "4" -> 4 [] c = "5" -> 5 [] c = "6" -> 6 [] c = "7" -> 7
    [] c = "8" -> 8 [] c = "9" -> 9

\* the unsigned part of an int() literal: digits, single underscores between
IsDigitString(d) ==
  /\ d # <<>>
  /\ \A i \in 1..Len(d) : d[i] \in Digits \/ d[i] = "_"
  /\ d[1] # "_" /\ d[Len(d)] # "_"
  /\ \A i \in 1..(Len(d) - 1) : ~(d[i] = "_" /\ d[i + 1] = "_")

RECURSIVE DigitsValue(_, _)
DigitsValue(d, acc) ==
  IF d = <<>> THEN acc
  ELSE IF d[1] = "_" THEN DigitsValue(Tail(d), acc)
  ELSE DigitsValue(Tail(d), 10 * acc + DigitVal(d[1]))

\* int(s): [ok |-> TRUE, val |-> n], or ok = FALSE for a ValueError
PyInt(s) ==
  LET signed == s # <<>> /\ s[1] \in {"+", "-"}
      body   == IF signed THEN Tail(s) ELSE s
  IN IF IsDigitString(body)
     THEN [ok |-> TRUE,
           val |-> IF signed /\ s[1] = "-" THEN 0 - DigitsValue(body, 0)
                   ELSE DigitsValue(body, 0)]
     ELSE [ok |-> FALSE, val |-> 0]

(* ------------------------------------------------------------------ *)
(* The file system and the process environment the shell runs in        *)
(* ------------------------------------------------------------------ *)

\* file names (the builtins' names double as command words)
exit == <<"e", "x", "i", "t">>
echo == <<"e", "c", "h", "o">>
pwd  == <<"p", "w", "d">>
cd   == <<"c", "d">>
type == <<"t", "y", "p", "e">>
bin    == <<"b", "i", "n">>
w      == <<"w">>
dir    == <<"d", "i", "r">>
ls     == <<"l", "s">>
prog   == <<"p", "r", "o", "g">>
sub    == <<"s", "u", "b">>
notes  == <<"n", "o", "t", "e", "s">>
locked == <<"l", "o", "c", "k", "e", "d">>
tool   == <<"t", "o", "o", "l">>
nope   == <<"n", "o", "p", "e">>

\* A node is its absolute path, as the sequence of its components.
Root == <<>>

\* every node, parents first; directory listings follow this order
NodeOrder ==
  << Root, <<bin>>, <<bin, echo>>, <<bin, ls>>, <<w>>, <<w, dir>>,
     <<w, dir, prog>>, <<w, dir, sub>>, <<w, locked>>, <<w, ls>>, <<w, notes>>,
     <<w, tool>> >>

Nodes == {NodeOrder[i] : i \in 1..Len(NodeOrder)}

\* "dir", "file" (not executable), "xfile" (executable), "locked" (a directory
\* with no permission bits)
BaseKind(n) ==
  CASE n \in {<<bin, echo>>, <<bin, ls>>, <<w, ls>>, <<w, tool>>} -> "xfile"
    [] n \in {<<w, dir, prog>>, <<w, notes>>}         -> "file"
    [] n = <<w, locked>>                               -> "locked"
    [] OTHER                                           -> "dir"

\* what a child process may delete (with everything below it)
Removable == {<<w, dir>>}

IsPrefix(p, n) == Len(p) <= Len(n) /\ SubSeq(n, 1, Len(p)) = p

\* the kind of node n once the nodes of `gone` are deleted
Kind(n, gone) ==
  IF n \notin Nodes \/ \E r \in gone : IsPrefix(r, n) THEN "none"
  ELSE BaseKind(n)

Parent(n) == IF n = Root THEN Root ELSE SubSeq(n, 1, Len(n) - 1)

\* the user's home directory, os.path.expanduser("~")
Home == <<"/">> \o w

\* the absolute path string of a node
PathStr(n) == <<"/">> \o JoinWith(<<"/">>, n)

RECURSIVE Walk(_, _, _)
\* path resolution from node n along the components comps
Walk(n, comps, gone) ==
  IF comps = <<>> THEN [err |-> "ok", node |-> n]
  ELSE LET c == comps[1]
           k == Kind(n, gone)
       IN CASE k \in {"file", "xfile"} -> [err |-> "ENOTDIR", node |-> n]
            [] k = "locked" -> [err |-> "EACCES", node |-> n]
            [] k = "none" ->
                 \* a deleted working directory still has its parent link
                 IF c = <<".", ".">> THEN Walk(Parent(n), Tail(comps), gone)
                 ELSE [err |-> "ENOENT", node |-> n]
            [] OTHER ->
                 IF c = <<".", ".">> THEN Walk(Parent(n), Tail(comps), gone)
                 ELSE IF Kind(Append(n, c), gone) = "none"
                      THEN [err |-> "ENOENT", node |-> n]
                      ELSE Walk(Append(n, c), Tail(comps), gone)

\* the kernel's lookup of a path string from working directory `at`
OsLookup(path, at, gone) ==
  IF path = <<>> THEN [err |-> "ENOENT", node |-> at]
  ELSE The({ IF r.err = "ok" /\ path[Len(path)] = "/"
                /\ Kind(r.node, gone) \in {"file", "xfile"}
             THEN [err |-> "ENOTDIR", node |-> r.node]
             ELSE r :
             r \in { Walk(IF path[1] = "/" THEN Root ELSE at,
                          SelectSeq(SplitOn(path, "/"),
                                    LAMBDA c : c # <<>> /\ c # <<".">>),
                          gone) } })

\* os.path.exists
OsExists(path, at, gone) == OsLookup(path, at, gone).err = "ok"

\* os.access(path, os.X_OK): executable files and searchable directories
OsAccessX(path, at, gone) ==
  The({ r.err = "ok" /\ Kind(r.node, gone) \in {"xfile", "dir", "none"} :
        r \in {OsLookup(path, at, gone)} })

\* os.chdir: the error it raises, or "ok" with the new working directory
OsChdir(path, at, gone) ==
  The({ IF r.err # "ok" THEN r
        ELSE CASE Kind(r.node, gone) \in {"file", "xfile"} ->
                    [err |-> "ENOTDIR", node |-> at]
               [] Kind(r.node, gone) = "locked" -> [err |-> "EACCES", node |-> at]
               [] OTHER -> r :
        r \in {OsLookup(path, at, gone)} })

\* os.getcwd: fails when the working directory has been deleted
OsGetcwd(at, gone) ==
  IF Kind(at, gone) = "none" THEN [err |-> "ENOENT", path |-> <<>>]
  ELSE [err |-> "ok", path |-> PathStr(at)]

\* the names in directory node n, in listing order
Listing(n, gone) ==
  LET kids == SelectSeq(NodeOrder,
                LAMBDA m : m # Root /\ Parent(m) = n /\ Kind(m, gone) # "none")
  IN [i \in 1..Len(kids) |-> kids[i][Len(kids[i])]]

(* ------------------------------------------------------------------ *)
(* PathResolver                                                          *)
(* ------------------------------------------------------------------ *)

\* os.path.join(a, b)
OsJoin(a, b) ==
  IF b # <<>> /\ b[1] = "/" THEN b
  ELSE IF a = <<>> \/ a[Len(a)] = "/" THEN a \o b
  ELSE a \o <<"/">> \o b

\* os.environ.get("PATH", "").split(os.pathsep); env is None when PATH is unset
PathDirs(env) == SplitOn(IF env = None THEN <<>> ELSE env, ":")

\* the least index at which the Boolean sequence hits is true, 0 if none
FirstHit(hits) ==
  IF \E i \in 1..Len(hits) : hits[i]
  THEN CHOOSE i \in 1..Len(hits) : hits[i] /\ \A j \in 1..(i - 1) : ~hits[j]
  ELSE 0

\* PathResolver.findinpath: the first PATH entry whose join with cmd exists and
\* is executable, as the joined path; None when no entry qualifies
findinpath(cmd, env, at, gone) ==
  The({ The({ IF k = 0 THEN None ELSE OsJoin(pathdirs[k], cmd) :
              k \in { FirstHit([i \in 1..Len(pathdirs) |->
                        /\ OsExists(OsJoin(pathdirs[i], cmd), at, gone)
                        /\ OsAccessX(OsJoin(pathdirs[i], cmd), at, gone)]) } }) :
        pathdirs \in {PathDirs(env)} })

(* ------------------------------------------------------------------ *)
(* Builtin commands                                                      *)
(* ------------------------------------------------------------------ *)

\* one print call: the literal text, the strings interpolated, the line end
Print0(fmt, args, end) == [fmt |-> fmt, args |-> args, end |-> end]

\* what a command did: its print calls, the working directory it leaves,
\* whether it called sys.exit (and with what), the exception it let escape
Done(out, at) ==
  [out |-> out, cwd |-> at, exited |-> FALSE, code |-> 0, raised |-> "none"]

\* Shell.initializebuiltins: the keys of the registry
Builtins == {exit, echo, pwd, cd, type}

\* faulty variant of TypeBuiltins: a copy taken before "type" was registered
TypeBuiltinsStale == {exit, echo, pwd, cd}

\* TypeCommand.builtins: the registry object itself, so TypeCommand sees the
\* key added after it was constructed
TypeBuiltins == Builtins

\* faulty variant of ExitCommand: the ValueError is not handled apart, the
\* shell exits with 0
ExitCommandAlways(args) ==
  [out |-> <<>>, exited |-> TRUE,
   code |-> IF args = <<>> THEN 0 ELSE PyInt(args[1]).val]

\* ExitCommand.execute: its print calls, whether sys.exit was called, the code
ExitCommand(args) ==
  LET r == IF args = <<>> THEN [ok |-> TRUE, val |-> 0] ELSE PyInt(args[1])
  IN IF r.ok
     THEN [out |-> <<>>, exited |-> TRUE, code |-> r.val]
     ELSE [out |-> <<Print0("exit: Invalid exit code", <<>>, "\n")>>,
           exited |-> FALSE, code |-> 0]

\* EchoCommand.execute
EchoCommand(args) == <<Print0("{}", <<JoinWith(<<" ">>, args)>>, "\n")>>

\* TypeCommand.execute
TypeCommand(args, env, at, gone) ==
  IF args = <<>> THEN <<Print0("type: usage: type <command>", <<>>, "\n")>>
  ELSE <<Print0("{}", <<args[1]>>, "")>> \o
       ( IF args[1] \in TypeBuiltins
         THEN <<Print0(" is a shell builtin", <<>>, "\n")>>
         ELSE The({ IF path # None /\ path # <<>>
                    THEN <<Print0(" is {}", <<path>>, "\n")>>
                    ELSE <<Print0(": not found", <<>>, "\n")>> :
                    path \in {findinpath(args[1], env, at, gone)} }) )

\* PwdCommand.execute: os.getcwd's error is not handled
PwdCommand(at, gone) ==
  LET g == OsGetcwd(at, gone)
  IN IF g.err = "ok" THEN Done(<<Print0("{}", <<g.path>>, "\n")>>, at)
     ELSE [Done(<<>>, at) EXCEPT !.raised = "FileNotFoundError"]

\* args[0] if args else os.path.expanduser("~")
CdTarget(args) == IF args # <<>> THEN args[1] ELSE Home

\* faulty variant of CdCommand: a failed cd falls back to the home directory
CdCommandHomeOnError(args, at, gone) ==
  The({ IF r.err = "ok" THEN Done(<<>>, r.node)
        ELSE Done(<<Print0("cd: {}: No such file or directory",
                           <<CdTarget(args)>>, "\n")>>, <<w>>) :
        r \in {OsChdir(CdTarget(args), at, gone)} })

\* faulty variant of CdCommand: the two except clauses print each other's text
CdCommandSwapped(args, at, gone) ==
  The({ CASE r.err = "ok" -> Done(<<>>, r.node)
          [] r.err = "ENOTDIR" ->
               Done(<<Print0("cd: {}: No such file or directory",
                             <<CdTarget(args)>>, "\n")>>, at)
          [] r.err = "ENOENT" ->
               Done(<<Print0("cd: {}: Not a directory", <<CdTarget(args)>>, "\n")>>, at)
          [] OTHER ->
               Done(<<Print0("cd: {}: {}", <<CdTarget(args), <<r.err>>>>, "\n")>>, at) :
        r \in {OsChdir(CdTarget(args), at, gone)} })

\* CdCommand.execute
CdCommand(args, at, gone) ==
  The({ CASE r.err = "ok" -> Done(<<>>, r.node)
          [] r.err = "ENOENT" ->
               Done(<<Print0("cd: {}: No such file or directory",
                             <<CdTarget(args)>>, "\n")>>, at)
          [] r.err = "ENOTDIR" ->
               Done(<<Print0("cd: {}: Not a directory", <<CdTarget(args)>>, "\n")>>, at)
          [] OTHER ->
               Done(<<Print0("cd: {}: {}", <<CdTarget(args), <<r.err>>>>, "\n")>>, at) :
        r \in {OsChdir(CdTarget(args), at, gone)} })

(* ------------------------------------------------------------------ *)
(* Shell: the external-command launcher and the dispatcher              *)
(* ------------------------------------------------------------------ *)

\* os.defpath, which subprocess searches when PATH is unset
DefPath == <<"/", "b", "i", "n", ":", "/", "u", "s", "r", "/", "b", "i", "n">>

\* execve of one candidate path
ExecOne(path, at, gone) ==
  The({ IF r.err # "ok" THEN r.err
        ELSE IF Kind(r.node, gone) = "xfile" THEN "ok" ELSE "EACCES" :
        r \in {OsLookup(path, at, gone)} })

\* the candidate paths subprocess tries for tokens[0]
ExecCandidates(name, env) ==
  IF \E i \in 1..Len(name) : name[i] = "/" THEN <<name>>
  ELSE The({ [i \in 1..Len(dirs) |-> OsJoin(dirs[i], name)] :
             dirs \in {SplitOn(IF env = None THEN DefPath ELSE env, ":")} })

\* the outcome of the tries `res`: the first that executes wins, else the
\* first error other than ENOENT/ENOTDIR, else the last error
ExecOutcome(res) ==
  IF \E i \in 1..Len(res) : res[i] = "ok" THEN "ok"
  ELSE IF \E i \in 1..Len(res) : res[i] \notin {"ENOENT", "ENOTDIR"}
       THEN res[CHOOSE i \in 1..Len(res) :
                  /\ res[i] \notin {"ENOENT", "ENOTDIR"}
                  /\ \A j \in 1..(i - 1) : res[j] \in {"ENOENT", "ENOTDIR"}]
       ELSE res[Len(res)]

\* subprocess.run's own search for tokens[0]
ExecResolve(name, env, at, gone) ==
  The({ ExecOutcome([i \in 1..Len(cands) |-> ExecOne(cands[i], at, gone)]) :
        cands \in {ExecCandidates(name, env)} })

\* what a child process can do: its exit code, its two streams, what it deletes
Children ==
  [rc : {0, 1}, stdout : {<<"o", "u", "t">>}, stderr : {<<"e", "r", "r">>},
   removes : {{}} \cup {{r} : r \in Removable}]

NoChild == [rc |-> 0, stdout |-> <<>>, stderr |-> <<>>, removes |-> {}]

\* faulty variant of executeexternalcommand: both streams are printed
executeexternalcommandBoth(tokens, child, env, at, gone) ==
  [out |-> <<Print0("{}", <<child.stdout>>, ""), Print0("{}", <<child.stderr>>, "")>>,
   ran |-> ExecResolve(tokens[1], env, at, gone) = "ok",
   gone |-> gone \cup child.removes]

\* Shell.executeexternalcommand
executeexternalcommand(tokens, child, env, at, gone) ==
  The({ CASE x = "ok" ->
               [out |-> IF child.rc = 0
                        THEN <<Print0("{}", <<child.stdout>>, "")>>
                        ELSE <<Print0("{}", <<child.stderr>>, "")>>,
                ran |-> TRUE, gone |-> gone \cup child.removes]
          [] x = "ENOENT" ->
               [out |-> <<Print0("{}: command not found", <<tokens[1]>>, "\n")>>,
                ran |-> FALSE, gone |-> gone]
          [] OTHER ->
               [out |-> <<Print0("Error executing {}: {}", <<tokens[1], <<x>>>>, "\n")>>,
                ran |-> FALSE, gone |-> gone] :
        x \in {ExecResolve(tokens[1], env, at, gone)} })

\* faulty variant of Route: PATH is consulted before the registry
RoutePathFirst(tokens, env, at, gone) ==
  IF tokens = <<>> THEN "empty"
  ELSE IF findinpath(tokens[1], env, at, gone) # None THEN "external"
  ELSE IF tokens[1] \in Builtins THEN "builtin"
  ELSE "notfound"

\* the branch of Shell.processinput a token sequence takes
Route(tokens, env, at, gone) ==
  IF tokens = <<>> THEN "empty"
  ELSE IF tokens[1] \in Builtins THEN "builtin"
  ELSE IF findinpath(tokens[1], env, at, gone) # None THEN "external"
  ELSE "notfound"

\* self.builtins[cmdname].execute(cmdargs)
RunBuiltin(name, args, env, at, gone) ==
  CASE name = exit ->
         LET e == ExitCommand(args)
         IN [Done(e.out, at) EXCEPT !.exited = e.exited, !.code = e.code]
    [] name = echo -> Done(EchoCommand(args), at)
    [] name = type -> Done(TypeCommand(args, env, at, gone), at)
    [] name = pwd  -> PwdCommand(at, gone)
    [] name = cd   -> CdCommand(args, at, gone)

\* what processinput did when nothing was run
NoRun(tokens, route, at, gone) ==
  [tokens |-> tokens, route |-> route, ran |-> FALSE, builtin |-> None,
   bargs |-> <<>>, argv |-> <<>>, res |-> Done(<<>>, at), gone |-> gone]

\* Shell.processinput: the route taken, the builtin run, the argv launched,
\* and the effect on the output, the working directory and the file system
processinput(inputstr, child, env, at, gone) ==
  The({ The({
    CASE route = "empty" -> NoRun(tokens, route, at, gone)
      [] route = "builtin" ->
           [NoRun(tokens, route, at, gone) EXCEPT
              !.builtin = tokens[1], !.bargs = Tail(tokens),
              !.res = RunBuiltin(tokens[1], Tail(tokens), env, at, gone)]
      [] route = "external" ->
           The({ [NoRun(tokens, route, at, gone) EXCEPT
                    !.argv = tokens, !.ran = x.ran,
                    !.res = Done(x.out, at), !.gone = x.gone] :
                 x \in {executeexternalcommand(tokens, child, env, at, gone)} })
      [] OTHER ->
           [NoRun(tokens, route, at, gone) EXCEPT !.res =
              Done(<<Print0("{}: command not found", <<tokens[1]>>, "\n")>>, at)] :
    route \in {Route(tokens, env, at, gone)} }) :
    tokens \in {SplitWords(inputstr)} })

(* ------------------------------------------------------------------ *)
(* Completer                                                             *)
(* ------------------------------------------------------------------ *)

\* a pathlib.Path: absolute or relative, and its components
Dot     == [abs |-> FALSE, parts |-> <<>>]
Slash   == [abs |-> TRUE, parts |-> <<>>]

\* str(path)
PStr(p) ==
  IF p.abs THEN <<"/">> \o JoinWith(<<"/">>, p.parts)
  ELSE IF p.parts = <<>> THEN <<".">>
  ELSE JoinWith(<<"/">>, p.parts)

\* path.parent (lexical: the parent of '.' is '.')
PParent(p) ==
  IF p.parts = <<>> THEN p
  ELSE [p EXCEPT !.parts = SubSeq(p.parts, 1, Len(p.parts) - 1)]

\* path / component
PDiv(p, c) == [p EXCEPT !.parts = Append(p.parts, c)]

\* path.is_dir(): [err, val]; a missing path is not a directory, a path
\* behind a directory without permission raises
PIsDir(p, at, gone) ==
  The({ CASE r.err = "ok" ->
               [err |-> "none", val |-> Kind(r.node, gone) \notin {"file", "xfile"}]
          [] r.err = "EACCES" -> [err |-> "PermissionError", val |-> FALSE]
          [] OTHER -> [err |-> "none", val |-> FALSE] :
        r \in {OsLookup(PStr(p), at, gone)} })

\* path.iterdir(): [err, names]
PIterdir(p, at, gone) ==
  The({ CASE r.err = "ENOENT" -> [err |-> "FileNotFoundError", names |-> <<>>]
          [] r.err = "ENOTDIR" -> [err |-> "NotADirectoryError", names |-> <<>>]
          [] r.err = "EACCES" -> [err |-> "PermissionError", names |-> <<>>]
          [] Kind(r.node, gone) \in {"file", "xfile"} ->
               [err |-> "NotADirectoryError", names |-> <<>>]
          [] Kind(r.node, gone) = "locked" ->
               [err |-> "PermissionError", names |-> <<>>]
          [] OTHER -> [err |-> "none", names |-> Listing(r.node, gone)] :
        r \in {OsLookup(PStr(p), at, gone)} })

\* the registry's keys in insertion order
BuiltinOrder == <<exit, echo, pwd, cd, type>>

\* self.matches[state], None on IndexError
MatchAt(list, state) == IF state + 1 <= Len(list) THEN list[state + 1] ELSE None

\* one candidate: str(p), with a trailing slash when p.is_dir()
Rendered(p, isdir) == IF isdir.val THEN PStr(p) \o <<"/">> ELSE PStr(p)

\* the candidates for the entries `keep` of current_path, is_dir being `dirs`
RenderAll(current_path, keep, dirs) ==
  IF \E i \in 1..Len(keep) : dirs[i].err # "none"
  THEN [err |-> "PermissionError", list |-> <<>>]
  ELSE [err |-> "none",
        list |-> [i \in 1..Len(keep) |-> Rendered(PDiv(current_path, keep[i]), dirs[i])]]

\* the comprehension of lines 106-110 and 112-116: the entries of current_path
\* whose name starts with `word`, directories with a trailing slash
PathMatches(current_path, word, at, gone) ==
  The({ IF it.err # "none" THEN [err |-> it.err, list |-> <<>>]
        ELSE The({ RenderAll(current_path, keep,
                     [i \in 1..Len(keep) |->
                        PIsDir(PDiv(current_path, keep[i]), at, gone)]) :
                   keep \in {SelectSeq(it.names, LAMBDA n : StartsWith(n, word))} }) :
        it \in {PIterdir(current_path, at, gone)} })

RECURSIVE ApplyComponents(_, _)
\* the loop of lines 97-101
ApplyComponents(current_path, comps) ==
  IF comps = <<>> THEN current_path
  ELSE LET c == comps[1]
       IN ApplyComponents(
            IF c = <<".", ".">> THEN PParent(current_path)
            ELSE IF c # <<>> /\ c # <<".">> THEN PDiv(current_path, c)
            ELSE current_path,
            Tail(comps))

\* lines 103-104: the walked path if it is a directory, else its parent if
\* that is one, else '.'
DirOrFallback(walked, at, gone) ==
  The({ IF d1.err # "none" THEN [err |-> d1.err, path |-> walked]
        ELSE IF d1.val THEN [err |-> "none", path |-> walked]
        ELSE The({ IF d2.err # "none" THEN [err |-> d2.err, path |-> walked]
                   ELSE [err |-> "none",
                         path |-> IF d2.val THEN PParent(walked) ELSE Dot] :
                   d2 \in {PIsDir(PParent(walked), at, gone)} }) :
        d1 \in {PIsDir(walked, at, gone)} })

\* the directory lines 90-104 settle on for `cd <target>`: [err, path]
CdCompletionDir(target, at, gone) ==
  DirOrFallback(
    IF StartsWith(target, <<"/">>)
    THEN ApplyComponents(Slash, SplitOn(Tail(target), "/"))
    ELSE ApplyComponents(Dot, SplitOn(target, "/")),
    at, gone)

\* lines 82 and 86-88: the builtins and the entries of '.' starting with word
NameMatches(word, here) ==
  [err |-> here.err,
   list |-> SelectSeq(BuiltinOrder, LAMBDA c : StartsWith(c, word))
            \o SelectSeq(here.names, LAMBDA n : StartsWith(n, word))]

\* the candidate list a state == 0 call computes: [err, list]
Candidates(text, at, gone) ==
  The({ CASE Len(parts) = 0 -> NameMatches(<<>>, PIterdir(Dot, at, gone))
          [] Len(parts) = 1 -> NameMatches(parts[1], PIterdir(Dot, at, gone))
          [] OTHER ->
               IF parts[Len(parts) - 1] = cd
               THEN The({ IF d.err # "none" THEN [err |-> d.err, list |-> <<>>]
                          ELSE PathMatches(d.path, parts[Len(parts)], at, gone) :
                          d \in {CdCompletionDir(parts[Len(parts)], at, gone)} })
               ELSE PathMatches(Dot, parts[Len(parts)], at, gone) :
        parts \in {SplitWords(text)} })

\* self.matches before the first state == 0 call: the attribute does not exist
NoMatches == [has |-> FALSE, list |-> <<>>]

\* Completer.complete(text, state) with self.matches = cached: the list it
\* leaves, what it returns or raises
complete(text, state, cached, at, gone) ==
  IF state = 0
  THEN The({ IF c.err # "none"
             THEN [matches |-> cached, ret |-> None, raised |-> c.err]
             ELSE [matches |-> [has |-> TRUE, list |-> c.list],
                   ret |-> MatchAt(c.list, state), raised |-> "none"] :
             c \in {Candidates(text, at, gone)} })
  ELSE IF ~cached.has
       THEN [matches |-> cached, ret |-> None, raised |-> "AttributeError"]
       ELSE [matches |-> cached, ret |-> MatchAt(cached.list, state),
             raised |-> "none"]

(* ------------------------------------------------------------------ *)
(* Inputs                                                                *)
(* ------------------------------------------------------------------ *)

a    == <<"a">>
n3   == <<"3">>
neg1 == <<"-", "1">>
abc  == <<"a", "b", "c">>
n3x  == <<"3", "x">>
n1u0 == <<"1", "_", "0">>
up   == <<".", ".">>
slashbin == <<"/">> \o bin

CmdLine(tokens) == JoinWith(<<" ">>, tokens)

\* the lines typed at the prompt
Lines ==
  { <<>>, <<" ", " ">>,
    <<" ">> \o echo \o <<" ", " ">> \o a \o <<" ">> \o abc \o <<" ">>,
    CmdLine(<<pwd>>),
    CmdLine(<<cd>>), CmdLine(<<cd, dir>>), CmdLine(<<cd, up>>),
    CmdLine(<<cd, slashbin>>), CmdLine(<<cd, nope>>), CmdLine(<<cd, notes>>),
    CmdLine(<<cd, locked>>),
    CmdLine(<<exit>>), CmdLine(<<exit, n3>>), CmdLine(<<exit, neg1>>),
    CmdLine(<<exit, abc>>), CmdLine(<<exit, n3x>>), CmdLine(<<exit, n1u0>>),
    CmdLine(<<type>>), CmdLine(<<type, echo>>), CmdLine(<<type, type>>),
    CmdLine(<<type, ls>>), CmdLine(<<type, nope>>), CmdLine(<<type, tool>>),
    CmdLine(<<ls, dir>>), CmdLine(<<tool>>), CmdLine(<<nope>>),
    CmdLine(<<dir>>) }

\* the buffers the line editor asks completions for
Buffers ==
  { <<>>, <<"e">>,
    CmdLine(<<cd, <<"n">>>>), CmdLine(<<cd, dir>>),
    CmdLine(<<cd, dir \o <<"/", "p", "r">>>>),
    CmdLine(<<cd, slashbin \o <<"/", "l">>>>),
    CmdLine(<<cd, locked>>), CmdLine(<<ls, <<"n">>>>) }

\* the values of PATH the shell may be started with (None: unset)
Environments ==
  { None, <<>>, <<"/">> \o bin \o <<":", "/">> \o w }

(* ------------------------------------------------------------------ *)
(* The process: Shell.run                                                *)
(* ------------------------------------------------------------------ *)

VARIABLES
  status,   \* "prompting", "exited", "eof" (EOFError at the prompt), "crashed"
  cwd,      \* the process working directory (a node)
  removed,  \* the nodes deleted so far
  env,      \* PATH
  matches,  \* Completer.matches
  out,      \* the print calls of the last step
  last      \* the last step: what was asked and what the code did

vars == <<status, cwd, removed, env, matches, out, last>>

Blank == Print0("", <<>>, "\n")

NoStep ==
  [op |-> "init", text |-> <<>>, state |-> 0, tokens |-> <<>>, route |-> "empty",
   builtin |-> None, bargs |-> <<>>, argv |-> <<>>, ran |-> FALSE,
   child |-> NoChild, cwd0 |-> Root, removed0 |-> {}, ret |-> None,
   raised |-> "none", exited |-> FALSE, code |-> 0, intr |-> "none"]

Init ==
  /\ status = "prompting"
  /\ cwd = <<w>>
  /\ removed = {}
  /\ env \in Environments
  /\ matches = NoMatches
  /\ out = <<>>
  /\ last = NoStep

\* one pass of the loop body: input() returns `line` and processinput runs
Dispatch(line, child) ==
  \E p \in {processinput(line, child, env, cwd, removed)} :
     /\ out' = p.res.out
     /\ cwd' = p.res.cwd
     /\ removed' = p.gone
     /\ status' = IF p.res.raised # "none" THEN "crashed"
                  ELSE IF p.res.exited THEN "exited"
                  ELSE "prompting"
     /\ last' = [NoStep EXCEPT !.op = "line", !.text = line, !.tokens = p.tokens,
                   !.cwd0 = cwd, !.removed0 = removed,
                   !.route = p.route, !.builtin = p.builtin,
                   !.bargs = p.bargs, !.argv = p.argv, !.ran = p.ran,
                   !.child = IF p.ran THEN child ELSE NoChild,
                   !.raised = p.res.raised, !.exited = p.res.exited,
                   !.code = p.res.code]
     /\ UNCHANGED <<env, matches>>

ReadLine(line) ==
  /\ status = "prompting"
  /\ \E child \in (IF Route(SplitWords(line), env, cwd, removed) = "external"
                   THEN Children ELSE {NoChild}) : Dispatch(line, child)

\* KeyboardInterrupt, while input() waits ("prompt") or once the line is read
\* and before processinput has had an effect ("dispatch"): print() and loop
Interrupt(where) ==
  /\ status = "prompting"
  /\ out' = <<Blank>>
  /\ last' = [NoStep EXCEPT !.op = "interrupt", !.cwd0 = cwd,
                !.removed0 = removed, !.intr = where]
  /\ UNCHANGED <<status, cwd, removed, env, matches>>

\* end of input: input() raises EOFError, which nothing catches
EndOfInput ==
  /\ status = "prompting"
  /\ status' = "eof"
  /\ out' = <<>>
  /\ last' = [NoStep EXCEPT !.op = "eof", !.cwd0 = cwd, !.removed0 = removed,
                !.raised = "EOFError"]
  /\ UNCHANGED <<cwd, removed, env, matches>>

\* the line editor calls the completer while input() waits; an exception the
\* callback raises is discarded by the line editor
Completion(text, state) ==
  /\ status = "prompting"
  /\ \E c \in {complete(text, state, matches, cwd, removed)} :
        /\ matches' = c.matches
        /\ last' = [NoStep EXCEPT !.op = "complete", !.text = text,
                      !.state = state, !.cwd0 = cwd, !.removed0 = removed,
                      !.ret = c.ret, !.raised = c.raised]
  /\ out' = <<>>
  /\ UNCHANGED <<status, cwd, removed, env>>

Next ==
  \/ \E line \in Lines : ReadLine(line)
  \/ \E where \in {"prompt", "dispatch"} : Interrupt(where)
  \/ EndOfInput
  \/ \E text \in Buffers : \E state \in 0..MaxState : Completion(text, state)

Spec == Init /\ [][Next]_vars

(* ------------------------------------------------------------------ *)
(* Properties                                                            *)
(* ------------------------------------------------------------------ *)

IsLine == last.op = "line"

\* C1: the loop returns to the prompt after every line; the process ends only
\* by the exit builtin (no argument, or an integer one) or by end of input.
C1_OnlyExitOrEofTerminates ==
  status # "prompting" =>
    \/ status = "eof" /\ last.op = "eof"
    \/ /\ status = "exited" /\ IsLine /\ last.builtin = exit
       /\ (last.bargs = <<>> \/ PyInt(last.bargs[1]).ok)

C3_Cd ==
  (IsLine /\ last.builtin = cd) =>
    LET path == IF last.bargs = <<>> THEN Home ELSE last.bargs[1]
        r    == OsChdir(path, last.cwd0, last.removed0)
    IN IF r.err = "ok"
       THEN /\ cwd = r.node
            /\ out = <<>>
            /\ PwdCommand(cwd, removed).out = <<Print0("{}", <<PathStr(r.node)>>, "\n")>>
       ELSE /\ cwd = last.cwd0
            /\ status = "prompting"
            /\ Len(out) = 1
            /\ out[1].args[1] = path
            /\ out[1].fmt =
                 CASE r.err = "ENOENT"  -> "cd: {}: No such file or directory"
                   [] r.err = "ENOTDIR" -> "cd: {}: Not a directory"
                   [] OTHER             -> "cd: {}: {}"

\* cd into a directory, and what pwd then prints
C3_Witness ==
  /\ IsLine /\ last.builtin = cd /\ last.bargs = <<dir>>
  /\ last.cwd0 = <<w>> /\ cwd = <<w, dir>>
  /\ PwdCommand(cwd, removed).out = <<Print0("{}", <<<<"/">> \o w \o <<"/">> \o dir>>, "\n")>>

\* C4: exit with no argument ends the process with code 0, with an integer
\* argument with that code, and with any other argument prints
\* "exit: Invalid exit code" and returns to the prompt.
C4_Exit ==
  (IsLine /\ last.builtin = exit) =>
    IF last.bargs = <<>>
    THEN status = "exited" /\ last.code = 0
    ELSE IF PyInt(last.bargs[1]).ok
    THEN /\ status = "exited"
         /\ last.code = PyInt(last.bargs[1]).val
         /\ last.bargs[1] = n3 => last.code = 3
         /\ last.bargs[1] = neg1 => last.code = 0 - 1
         /\ last.bargs[1] = n1u0 => last.code = 10
    ELSE /\ status = "prompting"
         /\ last.bargs[1] \in {abc, n3x}
         /\ out = <<Print0("exit: Invalid exit code", <<>>, "\n")>>

\* "exit 3" ended the process with code 3
C4_Witness ==
  /\ status = "exited" /\ last.builtin = exit
  /\ last.bargs = <<n3>> /\ last.code = 3

\* C5: an external command that ran to completion has exactly one of its
\* streams printed: stdout iff it exited 0, stderr iff it exited non-zero.
C5_OneStream ==
  (IsLine /\ last.route = "external" /\ last.ran) =>
    out = IF last.child.rc = 0
          THEN <<Print0("{}", <<last.child.stdout>>, "")>>
          ELSE <<Print0("{}", <<last.child.stderr>>, "")>>

\* a command exited non-zero and only its error stream was printed
C5_Witness ==
  /\ IsLine /\ last.route = "external" /\ last.ran /\ last.child.rc = 1
  /\ out = <<Print0("{}", <<<<"e", "r", "r">>>>, "")>>

\* findinpath as the specification words it: no directory is searched when
\* PATH is unset or empty; otherwise the earliest listed directory holding an
\* executable file of that name answers with '<directory>/<name>'
SpecifiedFind(name, e, at, gone) ==
  LET dirs == IF e = None \/ e = <<>> THEN <<>> ELSE SplitOn(e, ":")
      full(i) == dirs[i] \o <<"/">> \o name
      hit(i) == OsExists(full(i), at, gone) /\ OsAccessX(full(i), at, gone)
  IN IF \E i \in 1..Len(dirs) : hit(i)
     THEN full(CHOOSE i \in 1..Len(dirs) : hit(i) /\ \A j \in 1..(i - 1) : ~hit(j))
     ELSE None

\* C6: findinpath answers '<directory>/<name>' for the earliest PATH directory
\* with an executable of that name, and not-found otherwise; in particular
\* always not-found when PATH is unset or empty. Read off what `type <name>`
\* prints for a name that is no builtin.
C6_FindInPath ==
  (IsLine /\ last.builtin = type /\ last.bargs # <<>>
     /\ last.bargs[1] \notin Builtins) =>
    LET want == SpecifiedFind(last.bargs[1], env, last.cwd0, last.removed0)
    IN out[2] = IF want = None THEN Print0(": not found", <<>>, "\n")
                ELSE Print0(" is {}", <<want>>, "\n")

\* C7: the candidate list changes only on state == 0 calls, a state > 0 call
\* answers from the list the last state == 0 call left (None past its end),
\* and no call fails, a first call with state > 0 included.
C7_CompleteNeverFails ==
  last.op = "complete" =>
    /\ last.raised = "none"
    /\ matches.has
    /\ last.ret = MatchAt(matches.list, last.state)
    /\ last.state = 0 =>
         matches.list = Candidates(last.text, last.cwd0, last.removed0).list

\* C8: only a successful cd changes the working directory; every other step
\* (the other builtins, a failed cd, an external command, an unknown command,
\* an empty line, an interrupt, a completion request) leaves it as it was.
C8_OnlyCdChangesCwd ==
  [][ cwd' # cwd =>
        /\ last'.op = "line" /\ last'.builtin = cd
        /\ OsChdir(IF last'.bargs = <<>> THEN Home ELSE last'.bargs[1],
                   cwd, removed).err = "ok" ]_vars

\* the working directory differs from what it was before the last step
C8_Witness ==
  /\ IsLine /\ last.builtin = cd /\ cwd # last.cwd0
  /\ last.bargs = <<up>> /\ cwd = Root

\* the candidates the specification gives for `cd <token>`: the entries of
\* the token's directory part (with the fallbacks) whose names start with the
\* token's final component
SpecifiedCdCandidates(token, at, gone) ==
  LET absolute == StartsWith(token, <<"/">>)
      comps    == SplitOn(IF absolute THEN Tail(token) ELSE token, "/")
      final    == comps[Len(comps)]
      walked   == ApplyComponents(IF absolute THEN Slash ELSE Dot,
                                  SubSeq(comps, 1, Len(comps) - 1))
      resolved == IF PIsDir(walked, at, gone).val THEN walked
                  ELSE IF PIsDir(PParent(walked), at, gone).val THEN PParent(walked)
                  ELSE Dot
      m        == PathMatches(resolved, final, at, gone)
  IN {m.list[i] : i \in 1..Len(m.list)}

\* C9: for a buffer whose second-to-last token is cd, the candidates are the
\* entries of the last token's directory part whose names start with its
\* final component ('dir/pre' gives the entries of dir that start with 'pre').
C9_CdCompletion ==
  LET parts == SplitWords(last.text)
  IN (last.op = "complete" /\ last.state = 0 /\ last.raised = "none"
        /\ Len(parts) >= 2 /\ parts[Len(parts) - 1] = cd) =>
       {matches.list[i] : i \in 1..Len(matches.list)}
         = SpecifiedCdCandidates(parts[Len(parts)], last.cwd0, last.removed0)

====
